---- MODULE Spec2Model ----
(***************************************************************************)
(* The modal controller (window.callModal) as a state machine over the     *)
(* page: the dialog region and its content, the scroll lock, the promises  *)
(* the open calls return, and the callbacks the browser holds for the      *)
(* module (timers, transitionend listeners).  One action is one task of    *)
(* the event loop: a public call, a user click, a timer, an event listener.*)
(* The panel toggler (colaps.js) and the message text success and fail     *)
(* build have specifications of their own, SpecPanel and SpecMsg.          *)
(***************************************************************************)
EXTENDS Integers, Sequences, FiniteSets, TLC

\* The delay of a notification's self-dismiss timer when duration is omitted.
DefaultDuration == 5000

\* Number of open calls (prepareModal invocations) in one behaviour.
MaxCalls == 2
\* Page scroll offsets range over 0..MaxScroll.
MaxScroll == 1
\* Number of panel headers (.newHeadLine) on the page of SpecPanel.
NumPanels == 2
\* Number of header clicks in one behaviour of SpecPanel.
MaxClicks == 3
\* A message line has at most MaxLen characters.
MaxLen == 2
\* A list of message lines has at most MaxLines lines.
MaxLines == 2

VARIABLES
    modalElement,   \* TRUE iff document.getElementById('modal') found the region
    modalContent,   \* TRUE iff modalElement.querySelector('.content') found it
    className,      \* modalElement's class list, a set of class names
    preClassName,   \* history: the class list just before the latest open call
    cssClass,       \* history: the className argument of the latest open call
    onclick,        \* modalElement.onclick: [call, close], the call whose handler
                    \* it is (0 = null) and the settings.close its closure holds
    content,        \* what modalContent holds: [owner, kind]
    calls,          \* the open calls made so far: [scrollLock, y] per prepareModal,
                    \* y the page offset at the open of a call that locks scroll
    prom,           \* prom[c]: state of the promise prepareModal returned to call c
    outer,          \* outer[c]: state of the promise confirm returned, else "none"
    timers,         \* the armed self-dismiss timers (setTimeout(close, time)):
                    \* [call, time], the call whose close it runs and its delay
    closers,        \* calls whose caller was handed the close function
    listeners,      \* pending once-listeners for "transitionend", in registration order
    dispatch,       \* listeners still to run in the transitionend event being dispatched
    closeRet,       \* state, at return, of the promise returned by the closeModal
                    \* the latest task invoked last; "none" if it invoked none
    ret,            \* what the latest call of the fallback surface returned
    scrollY,        \* window.scrollY
    currentPos,     \* scrollControl.currentPos
    locked,         \* document.body.classList.contains('locked')
    bodyTop,        \* document.body.style.top: <<>> is '', <<n>> is '-npx'
    contentClassList,   \* contentClassList[i]: class list of the i-th header's
                        \* content (button.nextElementSibling)
    iconClassList,  \* iconClassList[i]: class list of the i-th header's icon
    clicks,         \* history: per header click, the header and the class lists
                    \* just before it: [button, content, icon]
    msg,            \* the msg argument of success or fail: [isArray, v], v the
                    \* lines of an array, or the one string
    textNode        \* the message's p element: [made, innerHTML]

pageVars == <<modalElement, modalContent>>

scrollVars == <<scrollY, currentPos, locked, bodyTop>>

openVars == <<preClassName, cssClass, onclick, content, calls>>

panelVars == <<contentClassList, iconClassList, clicks>>

messageVars == <<msg, textNode>>

vars == <<pageVars, className, openVars, prom, outer, timers, closers, listeners,
          dispatch, closeRet, ret, scrollVars, panelVars, messageVars>>

Offsets == 0..MaxScroll

\* The class list the page's markup gives the region before any call.
InitClassNames == {{"fade"}}

\* The values callers pass for options.close; "omitted" leaves the key out.
CloseOptions == {"omitted", "overlay", "all", "locked"}
\* The values callers pass for options.scrollLock.
LockOptions == {"omitted", "true", "false"}
\* The className arguments of custom (split on ' ').
CustomClassNames == {{"box"}}
\* The content a custom call shows: text, an element of class close-btn and
\* an element whose id is closeModal.
CustomContents == {"buttons"}

\* The duration arguments of notif, success and fail: <<>> leaves it out.
Durations == {<<>>, <<0>>}

NoContent == [owner |-> 0, kind |-> "none"]

NoHandler == [call |-> 0, close |-> "locked"]

NoReturn == [op |-> "none", value |-> "none"]

----------------------------------------------------------------------------
\* Settings with the scrollLock default turned on.
SettingsLockByDefault(options) ==
    [close      |-> IF options.close = "omitted" THEN "overlay" ELSE options.close,
     scrollLock |-> options.scrollLock # "false"]

\* Object.assign({ close: 'overlay', scrollLock: false }, options)
Settings(options) ==
    [close      |-> IF options.close = "omitted" THEN "overlay" ELSE options.close,
     scrollLock |-> options.scrollLock = "true"]

\* time with no default for an omitted duration.
timeNoDefault(duration) ==
    IF duration = <<>> THEN 0 ELSE duration[1]

\* const time = duration || 5000
time(duration) ==
    IF duration = <<>> \/ duration[1] = 0 THEN DefaultDuration ELSE duration[1]

\* The page's vertical offset as drawn: the 'locked' body is taken out of flow
\* (that is what gives its top an effect), drawn shifted by top, and
\* window.scrollY reads 0 meanwhile.
PageOffset ==
    IF locked /\ bodyTop # <<>> THEN bodyTop[1] ELSE scrollY

\* scrollControl.lock
lock ==
    /\ currentPos' = scrollY
    /\ locked' = TRUE
    /\ bodyTop' = <<scrollY>>
    /\ scrollY' = 0

\* scrollControl.unlock
unlock ==
    /\ locked' = FALSE
    /\ bodyTop' = <<>>
    /\ scrollY' = currentPos
    /\ UNCHANGED currentPos

\* Settle with the two buttons' continuations exchanged.
SettleSwapped(o, c, then) ==
    IF then = "none" \/ o[c] # "pending" THEN o
    ELSE [o EXCEPT ![c] = IF then = "yes" THEN "rejected" ELSE "fulfilled"]

\* The continuation chained on a close promise by the confirm buttons:
\* close().then(resolve) for "yes", close().then(reject) for "no".
Settle(o, c, then) ==
    IF then = "none" \/ o[c] # "pending" THEN o
    ELSE [o EXCEPT ![c] = IF then = "yes" THEN "fulfilled" ELSE "rejected"]

\* The part of the state closeModal reads and writes, as a task finds it.
CloseState ==
    [className |-> className, listeners |-> listeners,
     closeRet |-> "none", outer |-> outer]

\* closeModal without its test of the visible marker.
closeModalUnguarded(s, c, then) ==
    [s EXCEPT !.listeners = Append(@, [call |-> c, then |-> then, fb |-> "armed"]),
              !.className = @ \ {"active"},
              !.closeRet = "pending"]

\* closeModal resetting the class list instead of removing the marker.
closeModalClearing(s, c, then) ==
    IF "active" \notin s.className
    THEN [s EXCEPT !.closeRet = "fulfilled",
                   !.outer = Settle(s.outer, c, then)]
    ELSE [s EXCEPT !.listeners = Append(@, [call |-> c, then |-> then, fb |-> "armed"]),
                   !.className = {},
                   !.closeRet = "pending"]

\* closeModal of call c, with `then` chained on the promise it returns.
closeModal(s, c, then) ==
    IF "active" \notin s.className
    THEN [s EXCEPT !.closeRet = "fulfilled",
                   !.outer = Settle(s.outer, c, then)]
    ELSE [s EXCEPT !.listeners = Append(@, [call |-> c, then |-> then, fb |-> "armed"]),
                   !.className = @ \ {"active"},
                   !.closeRet = "pending"]

SetCloseState(s) ==
    /\ className' = s.className
    /\ listeners' = s.listeners
    /\ closeRet' = s.closeRet
    /\ outer' = s.outer

----------------------------------------------------------------------------
InitModal ==
    /\ modalElement \in BOOLEAN
    /\ modalContent \in BOOLEAN
    /\ (~modalElement => ~modalContent)
    /\ className \in InitClassNames
    /\ preClassName = className
    /\ cssClass = {}
    /\ onclick = NoHandler
    /\ content = NoContent
    /\ calls = <<>>
    /\ prom = <<>>
    /\ outer = <<>>
    /\ timers = {}
    /\ closers = {}
    /\ listeners = <<>>
    /\ dispatch = <<>>
    /\ closeRet = "none"
    /\ ret = NoReturn
    /\ scrollY \in Offsets
    /\ currentPos = 0
    /\ locked = FALSE
    /\ bodyTop = <<>>

\* A page with no panel header: querySelectorAll(".newHeadLine") is empty.
NoPanels ==
    /\ contentClassList = <<>>
    /\ iconClassList = <<>>
    /\ clicks = <<>>

\* No success or fail message is being built.
NoMessage ==
    /\ msg = [isArray |-> FALSE, v |-> <<>>]
    /\ textNode = [made |-> FALSE, innerHTML |-> <<>>]

Init == InitModal /\ NoPanels /\ NoMessage

\* No task of the event loop starts while an event is being dispatched.
Idle == dispatch = <<>>

\* prepareModal(className, setupFunc, options), for the setup functions of this
\* module and for a custom one that shows its content and keeps close:
\* the executor resets the region, wires dismissal and runs setupFunc, whose
\* showModal fills the content, marks the region visible and locks scroll.
\* With no content element showModal throws on its first line and the
\* promise rejects.
\* The class list with the new classes added to the ones already there.
resetClassNameKeeping(old, cls) == old \cup cls

\* modalElement.className = ''; classList.add(...className.split(' ')): the
\* class list the region held (old) is dropped
resetClassName(old, cls) == cls

prepareModal(kind, cls, options, ckind, duration) ==
    LET id == Len(calls) + 1
        settings == Settings(options)
    IN  /\ modalElement /\ Idle /\ Len(calls) < MaxCalls
        /\ preClassName' = className
        /\ cssClass' = cls
        /\ calls' = Append(calls, [scrollLock |-> settings.scrollLock,
                                   y |-> IF settings.scrollLock THEN PageOffset ELSE 0])
        /\ onclick' = IF settings.close \in {"all", "overlay"}
                      THEN [call |-> id, close |-> settings.close] ELSE NoHandler
        /\ IF modalContent
           THEN /\ className' = resetClassName(className, cls) \cup {"active"}
                /\ content' = [owner |-> id, kind |-> ckind]
                /\ IF settings.scrollLock THEN lock ELSE UNCHANGED scrollVars
                /\ prom' = Append(prom, "pending")
                /\ outer' = Append(outer, IF kind = "confirm" THEN "pending" ELSE "none")
                /\ timers' = IF kind = "notif"
                             THEN timers \cup {[call |-> id, time |-> time(duration)]}
                             ELSE timers
                /\ closers' = IF kind \in {"custom", "spinner"}
                              THEN closers \cup {id} ELSE closers
           ELSE /\ className' = resetClassName(className, cls)
                /\ prom' = Append(prom, "rejected")
                /\ outer' = Append(outer, IF kind = "confirm" THEN "rejected" ELSE "none")
                /\ UNCHANGED <<content, timers, closers, scrollVars>>
        /\ closeRet' = "none"
        /\ UNCHANGED <<panelVars, messageVars>>
    /\ UNCHANGED <<pageVars, listeners, dispatch, ret>>

\* callModal.custom(className, setupFunc, options)
Custom ==
    \E cls \in CustomClassNames, c \in CloseOptions, l \in LockOptions,
       k \in CustomContents :
        prepareModal("custom", cls, [close |-> c, scrollLock |-> l], k, <<>>)

\* notif(content, className, duration)
notif(cls, duration) ==
    prepareModal("notif", {"notification", cls},
                 [close |-> "all", scrollLock |-> "omitted"], "plain", duration)

\* callModal.notif
Notif == \E d \in Durations : notif("info", d)

\* successFail(msg, duration, isFailed)
successFail(duration, isFailed) ==
    notif(IF isFailed THEN "error" ELSE "success", duration)

\* callModal.success
Success == \E d \in Durations : successFail(d, FALSE)

\* callModal.fail
Fail == \E d \in Durations : successFail(d, TRUE)

\* callModal.confirm(text)
Confirm ==
    prepareModal("confirm", {"choice"},
                 [close |-> "omitted", scrollLock |-> "omitted"], "confirm", <<>>)

\* callModal.spinner(callback)
Spinner ==
    prepareModal("spinner", {"spinner"},
                 [close |-> "locked", scrollLock |-> "omitted"], "spinner", <<>>)

\* The caller invokes the close function that custom's setupFunc or spinner's
\* callback was handed.
ManualClose(c) ==
    /\ Idle /\ c \in closers
    /\ SetCloseState(closeModal(CloseState, c, "none"))
    /\ UNCHANGED <<panelVars, messageVars>>
    /\ UNCHANGED <<pageVars, openVars, prom, timers, closers, dispatch, ret, scrollVars>>

\* The self-dismiss timer of a notification fires: setTimeout(close, time).
TimerFire(c) ==
    /\ Idle /\ \E t \in timers : t.call = c
    /\ timers' = {t \in timers : t.call # c}
    /\ SetCloseState(closeModal(CloseState, c, "none"))
    /\ UNCHANGED <<panelVars, messageVars>>
    /\ UNCHANGED <<pageVars, openVars, prom, closers, dispatch, ret, scrollVars>>

\* The elements of the region a click can land on.
Targets ==
    {"overlay"} \cup (IF modalContent THEN {"content"} ELSE {})
        \cup (IF content.kind = "buttons" THEN {"closeBtn", "closeId"} ELSE {})
        \cup (IF content.kind = "confirm" THEN {"yes", "no"} ELSE {})

\* The target's own onclick: closeBtn.onclick, btnYes.onclick, btnNo.onclick.
targetHandler(s, t) ==
    CASE t = "closeBtn" -> closeModal(s, content.owner, "none")
      [] t = "yes"      -> closeModal(s, content.owner, "yes")
      [] t = "no"       -> closeModal(s, content.owner, "no")
      [] OTHER          -> s

\* regionHandler with the 'overlay' handler's test of the target left out.
regionHandlerAnyTarget(s, t) ==
    IF onclick.call = 0 THEN s
    ELSE closeModal(s, onclick.call, "none")

\* modalElement.onclick, reached by the click bubbling up from target t.
regionHandler(s, t) ==
    IF onclick.call = 0 THEN s
    ELSE IF onclick.close = "all" THEN closeModal(s, onclick.call, "none")
    ELSE IF t \in {"overlay", "closeId"} THEN closeModal(s, onclick.call, "none")
    ELSE s

\* The user clicks on target t of the region.
Click(t) ==
    /\ modalElement /\ Idle /\ Len(calls) > 0
    /\ t \in Targets
    /\ SetCloseState(regionHandler(targetHandler(CloseState, t), t))
    /\ UNCHANGED <<panelVars, messageVars>>
    /\ UNCHANGED <<pageVars, openVars, prom, timers, closers, dispatch, ret, scrollVars>>

\* The browser fires "transitionend" on the region: the listeners registered
\* so far are the ones it will run, each removed as it is run ({ once: true }).
TransitionEnd ==
    /\ Idle /\ listeners # <<>>
    /\ dispatch' = listeners
    /\ listeners' = <<>>
    /\ closeRet' = "none"
    /\ UNCHANGED <<panelVars, messageVars>>
    /\ UNCHANGED <<pageVars, className, openVars, prom, outer, timers, closers, ret,
                   scrollVars>>

\* onTransitionEnd of listener l, then the continuation on its close promise.
onTransitionEnd(l) ==
    /\ IF calls[l.call].scrollLock THEN unlock ELSE UNCHANGED scrollVars
    /\ outer' = Settle(outer, l.call, l.then)
    /\ prom' = IF prom[l.call] = "pending"
               THEN [prom EXCEPT ![l.call] = "fulfilled"] ELSE prom

\* The event being dispatched runs its next listener.
RunListener ==
    /\ dispatch # <<>>
    /\ onTransitionEnd(Head(dispatch))
    /\ dispatch' = Tail(dispatch)
    /\ UNCHANGED <<panelVars, messageVars>>
    /\ UNCHANGED <<pageVars, className, openVars, timers, closers, listeners,
                   closeRet, ret>>

\* The fallback timer of the i-th pending close fires: setTimeout(..., 400).
\* Its body tests the class list and does nothing.  The timers have one delay,
\* so they fire in the order the closes set them.
FallbackTimer(i) ==
    /\ Idle /\ i \in 1..Len(listeners)
    /\ listeners[i].fb = "armed"
    /\ \A j \in 1..(i - 1) : listeners[j].fb = "fired"
    /\ listeners' = [listeners EXCEPT ![i].fb = "fired"]
    /\ closeRet' = "none"
    /\ UNCHANGED <<panelVars, messageVars>>
    /\ UNCHANGED <<pageVars, className, openVars, prom, outer, timers, closers,
                   dispatch, ret, scrollVars>>

\* The user scrolls the page, which a locked body does not allow.
UserScroll(v) ==
    /\ modalElement /\ Idle /\ ~locked
    /\ v \in Offsets /\ v # scrollY
    /\ scrollY' = v
    /\ closeRet' = "none"
    /\ UNCHANGED <<panelVars, messageVars>>
    /\ UNCHANGED <<pageVars, className, openVars, prom, outer, timers, closers,
                   listeners, dispatch, ret, currentPos, locked, bodyTop>>

\* The fallback surface installed when the region is missing: op returns r.
Fallback(op, r) ==
    /\ ~modalElement
    /\ ret' = [op |-> op, value |-> r]
    /\ UNCHANGED <<panelVars, messageVars>>
    /\ UNCHANGED <<pageVars, className, openVars, prom, outer, timers, closers,
                   listeners, dispatch, closeRet, scrollVars>>

FallbackSuccess == Fallback("success", "resolved")

FallbackFail == Fallback("fail", "resolved")

FallbackSpinner == Fallback("spinner", "undefined")

FallbackConfirm == Fallback("confirm", "resolved")

FallbackNotif == Fallback("notif", "resolved")

FallbackCustom == Fallback("custom", "resolved")

Next ==
    \/ Custom
    \/ Notif
    \/ Success
    \/ Fail
    \/ Confirm
    \/ Spinner
    \/ \E t \in {"overlay", "content", "closeBtn", "closeId", "yes", "no"} : Click(t)
    \/ \E c \in 1..MaxCalls : TimerFire(c)
    \/ \E c \in 1..MaxCalls : ManualClose(c)
    \/ TransitionEnd
    \/ RunListener
    \/ \E i \in 1..MaxCalls : FallbackTimer(i)
    \/ \E v \in Offsets : UserScroll(v)
    \/ FallbackSuccess
    \/ FallbackFail
    \/ FallbackSpinner
    \/ FallbackConfirm
    \/ FallbackNotif
    \/ FallbackCustom

Spec == Init /\ [][Next]_vars

----------------------------------------------------------------------------
\* The calls made so far.
Made == 1..Len(calls)

\* The region is hidden and no close is waiting for its transition to end.
Closed == Idle /\ "active" \notin className /\ listeners = <<>>

\* C1: once the 400-unit fallback timer of a close has fired, that close is
\* complete (its listener is no longer waiting for transitionend), so no
\* pending close has a fallback timer that already fired.
C1_FallbackCompletes ==
    \A i \in 1..Len(listeners) : listeners[i].fb # "fired"

\* C2: once the region is no longer visible and its close transition has
\* ended, the promise every custom, notif, success, fail or spinner call got
\* back is completed, also for a call made before the latest one.
C2_ClosedCompletesEveryOpen ==
    Closed => \A c \in Made : outer[c] = "none" => prom[c] # "pending"

C4_SpinnerStaysVisible ==
    [][(content.kind = "spinner" /\ "active" \in className
            /\ "active" \notin className')
        => \E c \in closers : ManualClose(c)]_vars

\* C5: with the region absent every public operation leaves the dialog state
\* alone and returns an already-completed promise.
C5_FallbackReturnsCompleted ==
    ~modalElement =>
        /\ ret.value \in {"none", "resolved"}
        /\ calls = <<>> /\ className \in InitClassNames /\ ~locked

\* C6: with a required element missing (the region, or the content element
\* inside it) the surface is made of no-ops: no call changes the region and
\* none returns a promise that fails.
C6_MissingElementNoFailure ==
    (~modalElement \/ ~modalContent) =>
        /\ className \in InitClassNames
        /\ \A c \in Made : prom[c] # "rejected" /\ outer[c] # "rejected"

\* C7, as stated: after an open and its completed close the region has the
\* class list it had before the open.
C7_ClassListRestored ==
    (Closed /\ Len(calls) > 0 /\ prom[Len(calls)] = "fulfilled")
        => className = preClassName

\* C7, amended: once a call was made the region's classes other than the
\* visible marker are exactly those of the latest call's className argument,
\* so after the close they are that argument's classes whatever the region
\* held before the open.
C7_ClassListIsCssClass ==
    Len(calls) > 0 =>
        /\ className \ {"active"} = cssClass
        /\ (Closed /\ prom[Len(calls)] = "fulfilled" => className = cssClass)

\* C7 witness: the latest call was opened and its close completed, and the
\* class list differs from the one before the open.
C7_Witness ==
    /\ Closed /\ Len(calls) > 0 /\ prom[Len(calls)] = "fulfilled"
    /\ className = cssClass /\ className # preClassName

\* C8: when the close of a call that locked scroll completes, the page is at
\* the offset it had when the call opened and the body is not locked, also
\* when another call locked scroll in between.
C8_ScrollRestored ==
    [][(dispatch # <<>> /\ dispatch' = Tail(dispatch)
            /\ calls[Head(dispatch).call].scrollLock)
        => (~locked' /\ scrollY' = calls[Head(dispatch).call].y)]_vars

\* C9: an open without scrollLock (the default, and every notif, success,
\* fail, confirm and spinner call), every invocation of close, and the
\* completion of the close of a call without scrollLock leave the locked
\* marker, the body's top, the saved offset and the scroll position alone.
C9_NoLockNoScrollEffect ==
    [][/\ Len(calls') > Len(calls) =>
            /\ (Notif \/ Success \/ Fail \/ Confirm \/ Spinner)
                    => UNCHANGED scrollVars
            /\ (\E cls \in CustomClassNames, c \in CloseOptions, k \in CustomContents,
                    l \in {"omitted", "false"} :
                      prepareModal("custom", cls, [close |-> c, scrollLock |-> l], k,
                                   <<>>))
                    => UNCHANGED scrollVars
            /\ ~calls'[Len(calls')].scrollLock => UNCHANGED scrollVars
       /\ (dispatch # <<>> /\ dispatch' = Tail(dispatch)
              /\ ~calls[Head(dispatch).call].scrollLock)
            => UNCHANGED scrollVars
       /\ (closeRet' # "none" /\ dispatch' = dispatch) => UNCHANGED scrollVars]_vars

\* C9 witness: a call without scrollLock was opened and closed, its close
\* completed, while the body is locked by another call.
C9_Witness ==
    /\ locked
    /\ \E c \in Made : ~calls[c].scrollLock /\ prom[c] = "fulfilled"

\* C10: close invoked while the region lacks the visible marker returns a
\* completed promise, registers no transitionend listener and changes neither
\* the class list nor the scroll lock nor any promise; the state it leaves is
\* the one a repeated invocation leaves.
C10_CloseWhenHidden ==
    [][\A c \in Made :
        (ManualClose(c) /\ "active" \notin className) =>
            /\ closeRet' = "fulfilled"
            /\ UNCHANGED <<className, listeners, prom, outer, scrollVars, openVars,
                           timers, dispatch>>]_vars

\* C10 witness: a close function was invoked on a hidden region and returned a
\* completed promise, with no listener registered.
C10_Witness ==
    /\ Len(calls) = 1 /\ closers = {1} /\ content.kind = "spinner"
    /\ "active" \notin className /\ listeners = <<>>
    /\ closeRet = "fulfilled"


\* Every element a click can land on.
AllTargets == {"overlay", "content", "closeBtn", "closeId", "yes", "no"}

\* The clicks the close setting of the dialog shown lets through: any with
\* "all", those on the region itself or on the closeModal element with
\* "overlay", none otherwise.
DismissedBySetting(t) ==
    \/ onclick.close = "all"
    \/ onclick.close = "overlay" /\ t \in {"overlay", "closeId"}

\* What every click on a visible dialog leaves alone: a step that is not like
\* this is no click.
ClickOnVisible ==
    /\ "active" \in className /\ dispatch = <<>> /\ dispatch' = <<>>
    /\ calls' = calls /\ timers' = timers /\ scrollY' = scrollY
    /\ (listeners' = listeners \/ Len(listeners') > Len(listeners))

\* C11, as stated: a click on a visible dialog removes the visible marker
\* exactly when the close setting lets it through.
C11_SettingAloneDecides ==
    [][ClickOnVisible
        => \A t \in AllTargets :
               Click(t) => ("active" \notin className' <=> DismissedBySetting(t))]_vars

\* C11, amended: a click on a visible dialog removes the visible marker
\* exactly when the close setting lets it through or its target is the
\* content's close-btn element or one of confirm's two buttons, whose own
\* handlers close whatever the setting.
C11_SettingAndButtonsDecide ==
    [][ClickOnVisible
        => \A t \in AllTargets :
               Click(t) => ("active" \notin className'
                               <=> (DismissedBySetting(t)
                                        \/ t \in {"closeBtn", "yes", "no"}))]_vars

\* C11 witness: a confirm dialog, whose setting is "overlay", dismissed by a
\* click on its affirmative button.
C11_Witness ==
    /\ onclick.close = "overlay" /\ content.kind = "confirm"
    /\ "active" \notin className /\ closeRet = "pending"
    /\ listeners # <<>> /\ listeners[Len(listeners)].then = "yes"


C16_EarlierCloseSparesLaterDialog ==
    [][\A c \in 1..(Len(calls) - 1) :
            ("active" \in className /\ content.owner > c
                /\ (TimerFire(c) \/ ManualClose(c)))
            => "active" \in className']_vars

\* C17: whenever the region is not visible, no close transition is pending
\* and the close of the latest call has completed, the body is not locked.
C17_NoLockLeak ==
    (Closed /\ Len(calls) > 0 /\ prom[Len(calls)] = "fulfilled") => ~locked

\* C18: while the dialog of a call opened with scrollLock true is visible the
\* body is locked.
C18_LockedWhileVisible ==
    ("active" \in className /\ content.owner \in Made
            /\ calls[content.owner].scrollLock)
        => locked

\* C19: once the region is not visible, no close transition is pending and no
\* timer is armed, the promise of every confirm call is settled.
C19_ConfirmSettles ==
    (Closed /\ timers = {}) => \A c \in Made : outer[c] # "pending"


(***************************************************************************)
(* The panel toggler (colaps.js): every header found at load has a click   *)
(* listener over its own content and icon elements.                        *)
(***************************************************************************)

Panels == 1..NumPanels

\* The class lists the page's markup can give a content and an icon element.
ContentClassLists == SUBSET {"giveContent"}
IconClassLists == {{"fa-angle-down"} \cup a : a \in SUBSET {"active"}}

\* The handler with the icon's class flipped on its own state.
clickHandlerTogglingIcon(c, ic) ==
    [content |-> IF "giveContent" \in c THEN c \ {"giveContent"}
                 ELSE c \cup {"giveContent"},
     icon |-> IF "active" \in ic THEN ic \ {"active"} ELSE ic \cup {"active"}]

\* The click listener on class lists c (content) and ic (icon).
clickHandler(c, ic) ==
    IF "giveContent" \in c
    THEN [content |-> c \ {"giveContent"}, icon |-> ic \ {"active"}]
    ELSE [content |-> c \cup {"giveContent"}, icon |-> ic \cup {"active"}]

\* The modal controller's part of a page used for another component: the
\* page has no dialog region.
ModalAbsent == InitModal /\ ~modalElement /\ scrollY = 0

InitPanel ==
    /\ ModalAbsent /\ NoMessage
    /\ contentClassList \in [Panels -> ContentClassLists]
    /\ iconClassList \in [Panels -> IconClassLists]
    /\ clicks = <<>>

\* A click on header i whose listener changes the elements of the last header.
ClickHeaderLastPanel(i) ==
    LET new == clickHandler(contentClassList[NumPanels], iconClassList[NumPanels])
    IN  /\ Len(clicks) < MaxClicks
        /\ clicks' = Append(clicks, [button |-> i, content |-> contentClassList,
                                     icon |-> iconClassList])
        /\ contentClassList' = [contentClassList EXCEPT ![NumPanels] = new.content]
        /\ iconClassList' = [iconClassList EXCEPT ![NumPanels] = new.icon]
        /\ UNCHANGED <<pageVars, className, openVars, prom, outer, timers, closers,
                       listeners, dispatch, closeRet, ret, scrollVars, messageVars>>

\* The user clicks header i: its listener runs on its own content and icon.
ClickHeader(i) ==
    LET new == clickHandler(contentClassList[i], iconClassList[i])
    IN  /\ Len(clicks) < MaxClicks
        /\ clicks' = Append(clicks, [button |-> i, content |-> contentClassList,
                                     icon |-> iconClassList])
        /\ contentClassList' = [contentClassList EXCEPT ![i] = new.content]
        /\ iconClassList' = [iconClassList EXCEPT ![i] = new.icon]
        /\ UNCHANGED <<pageVars, className, openVars, prom, outer, timers, closers,
                       listeners, dispatch, closeRet, ret, scrollVars, messageVars>>

NextPanel == \E i \in Panels : ClickHeader(i)

SpecPanel == InitPanel /\ [][NextPanel]_vars

\* The latest two clicks were on the same header.
ClickedTwice ==
    /\ Len(clicks) >= 2
    /\ clicks[Len(clicks)].button = clicks[Len(clicks) - 1].button

\* The header of the latest click, and the class lists before the click
\* before it.
Twice == clicks[Len(clicks)].button
Before == clicks[Len(clicks) - 1]

\* C14, as stated: after two clicks on a header its content and its icon have
\* the class lists they had before the first of the two, whatever these were.
C14_TwiceRestoresBoth ==
    ClickedTwice =>
        /\ contentClassList[Twice] = Before.content[Twice]
        /\ iconClassList[Twice] = Before.icon[Twice]

\* C14, amended: after two clicks on a header its content has the class list
\* it had before the first of the two, its icon has active exactly when the
\* content has giveContent, and the icon has its earlier class list exactly
\* when it agreed with the content before the first click.
C14_TwiceRestoresContent ==
    ClickedTwice =>
        /\ contentClassList[Twice] = Before.content[Twice]
        /\ "active" \in iconClassList[Twice]
                <=> "giveContent" \in contentClassList[Twice]
        /\ iconClassList[Twice] = Before.icon[Twice]
                <=> ("active" \in Before.icon[Twice]
                        <=> "giveContent" \in Before.content[Twice])

\* C14 witness: a header whose icon had active while its content lacked
\* giveContent was clicked twice: the content is as before, the icon is not.
C14_Witness ==
    /\ ClickedTwice
    /\ "active" \in Before.icon[Twice] /\ "giveContent" \notin Before.content[Twice]
    /\ contentClassList[Twice] = Before.content[Twice]
    /\ iconClassList[Twice] # Before.icon[Twice]

\* The headers clicked so far.
Clicked == {clicks[n].button : n \in 1..Len(clicks)}

\* C20: after any clicks, the icon of every header clicked has active exactly
\* when its content has giveContent, and a click changes the class lists of
\* no panel but the clicked header's.
C20_IconMirrorsContent ==
    [][/\ \A i \in Clicked' :
              "active" \in iconClassList'[i] <=> "giveContent" \in contentClassList'[i]
       /\ \A i \in Panels : \A j \in Panels \ {i} :
              ClickHeader(i) => /\ contentClassList'[j] = contentClassList[j]
                                /\ iconClassList'[j] = iconClassList[j]]_vars

\* C20 witness: one header was clicked, the other was not: the clicked one's
\* icon was out of step with its content before and is in step now, and the
\* other panel, out of step too, is as the page's markup had it.
C20_Witness ==
    /\ Len(clicks) >= 1 /\ Clicked = {1}
    /\ "active" \in clicks[1].icon[1] /\ "giveContent" \notin clicks[1].content[1]
    /\ "active" \in iconClassList[1] /\ "giveContent" \in contentClassList[1]
    /\ "active" \in iconClassList[2] /\ "giveContent" \notin contentClassList[2]
    /\ contentClassList[2] = clicks[1].content[2]
    /\ iconClassList[2] = clicks[1].icon[2]


(***************************************************************************)
(* The message text of success and fail (successFail): text is a sequence  *)
(* of characters, so that joining and rendering are computed.              *)
(***************************************************************************)

\* The characters of message lines: plain text, no markup.
Chars == {"a", "b"}

\* The separator msg.join is given: '<br/>'
Separator == <<"<", "b", "r", "/", ">">>

RECURSIVE SeqsUpTo(_, _)
\* The sequences over S of length at most n.
SeqsUpTo(S, n) ==
    IF n = 0 THEN {<<>>}
    ELSE LET shorter == SeqsUpTo(S, n - 1)
         IN  shorter \cup {Append(q, x) : q \in shorter, x \in S}

Lines == SeqsUpTo(Chars, MaxLen)

\* The msg arguments: an array of lines, or one string.
Messages ==
    [isArray : {TRUE}, v : SeqsUpTo(Lines, MaxLines)]
        \cup [isArray : {FALSE}, v : {<<l>> : l \in Lines}]

RECURSIVE joinNoSeparator(_, _)
\* The elements one after the other, nothing between them.
joinNoSeparator(array, separator) ==
    IF array = <<>> THEN <<>>
    ELSE Head(array) \o joinNoSeparator(Tail(array), separator)

RECURSIVE join(_, _)
\* Array.prototype.join: the elements with separator between neighbours
join(array, separator) ==
    IF array = <<>> THEN <<>>
    ELSE IF Len(array) = 1 THEN array[1]
    ELSE array[1] \o separator \o join(Tail(array), separator)

\* let finalMsg = msg; if (Array.isArray(msg)) finalMsg = msg.join('<br/>')
finalMsg(m) ==
    IF m.isArray THEN join(m.v, Separator) ELSE m.v[1]

\* Where the first br tag of markup html starts, 0 if it has none.
FirstBreak(html) ==
    LET at == {i \in 1..(Len(html) - Len(Separator) + 1) :
                  SubSeq(html, i, i + Len(Separator) - 1) = Separator}
    IN  IF at = {} THEN 0 ELSE CHOOSE i \in at : \A j \in at : i <= j

RECURSIVE renderedLines(_)
\* The text the browser renders for markup html, line by line: a br element
\* ends a line.
renderedLines(html) ==
    LET i == FirstBreak(html)
    IN  IF i = 0 THEN <<html>>
        ELSE <<SubSeq(html, 1, i - 1)>>
                 \o renderedLines(SubSeq(html, i + Len(Separator), Len(html)))

InitMsg ==
    /\ ModalAbsent /\ NoPanels
    /\ msg \in Messages
    /\ textNode = [made |-> FALSE, innerHTML |-> <<>>]

\* successFail up to textNode.innerHTML = finalMsg
setInnerHTML ==
    /\ ~textNode.made
    /\ textNode' = [made |-> TRUE, innerHTML |-> finalMsg(msg)]
    /\ UNCHANGED <<pageVars, className, openVars, prom, outer, timers, closers,
                   listeners, dispatch, closeRet, ret, scrollVars, panelVars, msg>>

NextMsg == setInnerHTML

SpecMsg == InitMsg /\ [][NextMsg]_vars

\* C15: the message text built from a list of lines renders as these lines, in
\* order and each one present, a line break between neighbours (no text for
\* an empty list); the text built from one string is that string.
C15_LinesJoinedInOrder ==
    textNode.made =>
        IF msg.isArray
        THEN IF msg.v = <<>> THEN textNode.innerHTML = <<>>
             ELSE renderedLines(textNode.innerHTML) = msg.v
        ELSE textNode.innerHTML = msg.v[1]

\* C15 witness: the text was built from a list of two lines, both with text
\* and not the same, and has the separator between them.
C15_Witness ==
    /\ textNode.made /\ msg.isArray /\ Len(msg.v) = 2
    /\ msg.v[1] # <<>> /\ msg.v[2] # <<>> /\ msg.v[1] # msg.v[2]
    /\ textNode.innerHTML = msg.v[1] \o Separator \o msg.v[2]

====
